---------------------------- MODULE Spec2Model ----------------------------
(***************************************************************************)
(* The markdown-to-HTML pipeline of markdown_converter:                    *)
(*   convert = render . process_inline . parse . tokenize                  *)
(* Text is a sequence of one-character strings.  The Python cursor i is    *)
(* 0-based; here tokens are indexed from 1, so i = (Python i) + 1.         *)
(***************************************************************************)
EXTENDS Integers, Sequences, FiniteSets

VARIABLES markdown, pc, tokens, i, blocks, language, code_lines, para_lines,
          j, html_parts, result, calls, src, first, parsed

vars == <<markdown, pc, tokens, i, blocks, language, code_lines, para_lines,
          j, html_parts, result, calls, src, first, parsed>>

-----------------------------------------------------------------------------
(* Characters and small helpers                                            *)

Digits == {"0", "1", "2", "3", "4", "5", "6", "7", "8", "9"}

Letters == {"a", "b", "c", "d", "e", "f", "g", "h", "i", "j", "k", "l", "m",
            "n", "o", "p", "q", "r", "s", "t", "u", "v", "w", "x", "y", "z",
            "A", "B", "C", "D", "E", "F", "G", "H", "I", "J", "K", "L", "M",
            "N", "O", "P", "Q", "R", "S", "T", "U", "V", "W", "X", "Y", "Z"}

\* str.strip() / regex \s : the whitespace characters that occur in the
\* inputs (form feed, vertical tab and the like do not)
IsSpace(c) == c \in {" ", "\t", "\n", "\r"}

\* regex \w : the word characters
WordChars == Letters \cup Digits \cup {"_"}

\* the characters at which str.splitlines() breaks a line
IsLineBreak(c) == c \in {"\n", "\r"}

Min(S) == CHOOSE m \in S : \A k \in S : m <= k

Max(S) == CHOOSE m \in S : \A k \in S : m >= k

\* s[from..] (1-based), the empty text when from is past the end
Tail_(s, from) == SubSeq(s, from, Len(s))

\* index of the first element of s at or after from that is in C, 0 if none
FirstIn(s, from, C) ==
    LET hits == {k \in from..Len(s) : s[k] \in C}
    IN  IF hits = {} THEN 0 ELSE Min(hits)

\* length of the longest prefix of s[from..] whose characters are all in C
RunLen(s, from, C) ==
    LET bad == {k \in from..Len(s) : s[k] \notin C}
    IN  IF bad = {} THEN Len(s) - from + 1 ELSE Min(bad) - from

Spaces == {" ", "\t", "\n", "\r"}

\* str.strip()
strip(s) ==
    LET ns == {k \in 1..Len(s) : ~IsSpace(s[k])}
    IN  IF ns = {} THEN <<>> ELSE SubSeq(s, Min(ns), Max(ns))

\* str.lstrip(">")
lstrip_gt(s) == Tail_(s, RunLen(s, 1, {">"}) + 1)

RECURSIVE Concat(_)
\* "".join(parts)
Concat(parts) ==
    IF parts = <<>> THEN <<>> ELSE Head(parts) \o Concat(Tail(parts))

RECURSIVE JoinWith(_, _)
\* sep.join(parts)
JoinWith(sep, parts) ==
    IF parts = <<>> THEN <<>>
    ELSE IF Len(parts) = 1 THEN parts[1]
    ELSE parts[1] \o sep \o JoinWith(sep, Tail(parts))

\* s[p..p+Len(w)-1] = w
At(s, p, w) ==
    /\ p >= 1
    /\ p + Len(w) - 1 <= Len(s)
    /\ SubSeq(s, p, p + Len(w) - 1) = w

\* w occurs in s as a contiguous substring
Contains(s, w) == \E p \in 1..(Len(s) - Len(w) + 1) : At(s, p, w)

\* number of (possibly overlapping) occurrences of w in s: str.count for the
\* tags counted here, which cannot overlap themselves
Count(s, w) == Cardinality({p \in 1..(Len(s) - Len(w) + 1) : At(s, p, w)})

-----------------------------------------------------------------------------
(* lexer.py                                                                *)

RECURSIVE splitlines(_)
\* str.splitlines(): break at every line boundary, "\r\n" counting as one;
\* no empty last line after a final boundary
splitlines(s) ==
    IF s = <<>> THEN <<>>
    ELSE LET b == FirstIn(s, 1, {"\n", "\r"})
         IN  IF b = 0 THEN <<s>>
             ELSE LET skip == IF s[b] = "\r" /\ b < Len(s) /\ s[b + 1] = "\n"
                              THEN b + 2 ELSE b + 1
                  IN  <<SubSeq(s, 1, b - 1)>> \o splitlines(Tail_(s, skip))

tokenize(md) == splitlines(md)

-----------------------------------------------------------------------------
(* parser.py: the block patterns.  They are applied to lines produced by   *)
(* tokenize, which hold no line break, so a dot matches every character   *)
(* of a line and a dollar only its end.                                    *)

HRMarks == {<<"*", "*", "*">>, <<"-", "-", "-">>, <<"_", "_", "_">>}

\* _RE_HR = ^\s*(\*\*\*|---|___)\s*$
RE_HR(line) ==
    LET a == RunLen(line, 1, Spaces)
    IN  /\ a + 3 <= Len(line)
        /\ SubSeq(line, a + 1, a + 3) \in HRMarks
        /\ \A k \in (a + 4)..Len(line) : IsSpace(line[k])

\* the '#' run cut at five: the pattern written with #{1,5}
HeadingHashes_Five(line) ==
    LET r == RunLen(line, 1, {"#"}) IN IF r > 5 THEN 5 ELSE r

\* _RE_HEADING = ^(#{1,6})\s*(.*)$ ; group 1 is greedy, at most six '#'
HeadingHashes(line) ==
    LET r == RunLen(line, 1, {"#"}) IN IF r > 6 THEN 6 ELSE r

RE_HEADING(line) == HeadingHashes(line) >= 1

\* group(2) of _RE_HEADING: what follows the '#' run and the whitespace run
HeadingText(line) ==
    LET h == HeadingHashes(line)
    IN  Tail_(line, h + RunLen(line, h + 1, Spaces) + 1)

\* the backquote character U+0060, which a TLA+ string cannot hold
BQ == "BACKQUOTE"

Fence == <<BQ, BQ, BQ>>

\* group(1) of _RE_FENCE_START, the empty text when absent
FenceLanguage(line) ==
    SubSeq(line, 4, 3 + RunLen(line, 4, WordChars))

\* _RE_FENCE_START = ^ three backticks (\w+)?\s*$
RE_FENCE_START(line) ==
    /\ At(line, 1, Fence)
    /\ \A k \in (4 + Len(FenceLanguage(line)))..Len(line) : IsSpace(line[k])

\* _RE_FENCE_END = ^ three backticks \s*$
RE_FENCE_END(line) ==
    /\ At(line, 1, Fence)
    /\ \A k \in 4..Len(line) : IsSpace(line[k])

\* _RE_BLOCKQUOTE = ^\s*>+\s?(.*)$
RE_BLOCKQUOTE(line) ==
    LET a == RunLen(line, 1, Spaces)
    IN  a + 1 <= Len(line) /\ line[a + 1] = ">"

\* _RE_UNORDERED = ^(\s*)([-*+])\s+(.*)$
RE_UNORDERED(line) ==
    LET a == RunLen(line, 1, Spaces)
    IN  /\ a + 2 <= Len(line)
        /\ line[a + 1] \in {"-", "*", "+"}
        /\ IsSpace(line[a + 2])

\* group(3) of _RE_UNORDERED
UnorderedText(line) ==
    LET a == RunLen(line, 1, Spaces)
    IN  Tail_(line, a + 2 + RunLen(line, a + 2, Spaces))

\* group(2) of _RE_ORDERED: the digit run after the leading whitespace
OrderedDigits(line) ==
    LET a == RunLen(line, 1, Spaces)
    IN  SubSeq(line, a + 1, a + RunLen(line, a + 1, Digits))

\* _RE_ORDERED = ^(\s*)(\d+)\.\s+(.*)$
RE_ORDERED(line) ==
    LET a == RunLen(line, 1, Spaces)
        d == Len(OrderedDigits(line))
    IN  /\ d >= 1
        /\ a + d + 2 <= Len(line)
        /\ line[a + d + 1] = "."
        /\ IsSpace(line[a + d + 2])

\* group(3) of _RE_ORDERED
OrderedText(line) ==
    LET a == RunLen(line, 1, Spaces)
        d == Len(OrderedDigits(line))
    IN  Tail_(line, a + d + 2 + RunLen(line, a + d + 2, Spaces))

\* not line.strip()
IsBlank(line) == strip(line) = <<>>

-----------------------------------------------------------------------------
(* The literal texts of the templates and f-strings                        *)

IMG1 == <<"<", "i", "m", "g", " ", "s", "r", "c", "=", "\"">>

IMG2 == <<"\"", " ", "a", "l", "t", "=", "\"">>

IMG3 == <<"\"", "/", ">">>

A1 == <<"<", "a", " ", "h", "r", "e", "f", "=", "\"">>

A2 == <<"\"", ">">>

A3 == <<"<", "/", "a", ">">>

CODE1 == <<"<", "c", "o", "d", "e", ">">>

CODE2 == <<"<", "/", "c", "o", "d", "e", ">">>

STRONG1 == <<"<", "s", "t", "r", "o", "n", "g", ">">>

STRONG2 == <<"<", "/", "s", "t", "r", "o", "n", "g", ">">>

EM1 == <<"<", "e", "m", ">">>

EM2 == <<"<", "/", "e", "m", ">">>

AMP == <<"&", "a", "m", "p", ";">>

LT == <<"&", "l", "t", ";">>

GT == <<"&", "g", "t", ";">>

QUOT == <<"&", "q", "u", "o", "t", ";">>

APOS == <<"&", "#", "x", "2", "7", ";">>

P1 == <<"<", "p", ">">>

P2 == <<"<", "/", "p", ">">>

HR == <<"<", "h", "r", "/", ">">>

PRE1 == <<"<", "p", "r", "e", ">", "<", "c", "o", "d", "e", ">">>

PRE_LANG1 ==
    <<"<", "p", "r", "e", ">", "<", "c", "o", "d", "e", " ", "c", "l", "a",
      "s", "s", "=", "\"", "l", "a", "n", "g", "u", "a", "g", "e", "-">>

PRE_LANG2 == <<"\"", ">">>

PRE2 == <<"<", "/", "c", "o", "d", "e", ">", "<", "/", "p", "r", "e", ">">>

BQUOTE1 == <<"<", "b", "l", "o", "c", "k", "q", "u", "o", "t", "e", ">">>

BQUOTE2 == <<"<", "/", "b", "l", "o", "c", "k", "q", "u", "o", "t", "e", ">">>

UL1 == <<"<", "u", "l", ">", "<", "l", "i", ">">>

UL2 == <<"<", "/", "l", "i", ">", "<", "/", "u", "l", ">">>

OL1 == <<"<", "o", "l", ">", "<", "l", "i", ">">>

OL2 == <<"<", "/", "l", "i", ">", "<", "/", "o", "l", ">">>

-----------------------------------------------------------------------------
(* inline_parser.py: the five substitutions.  Each XxxEnd(s, p) is the     *)
(* index of the last character of the match of the pattern that starts at  *)
(* p, 0 when the pattern does not match there; a lazy group ends at the    *)
(* first place where the rest of the pattern matches.  Each sub_xxx(s) is  *)
(* pattern.sub(template, s): leftmost match, replaced, then the scan       *)
(* resumes after the match.                                                *)

\* a dot of a pattern: any character but a newline
NoNewline(s, a, b) == \A k \in a..b : s[k] # "\n"

\* _RE_IMAGE = !\[([^\]]*?)\]\(([^)]+?)\)
ImageClose(s, p) == FirstIn(s, p + 2, {"]"})

ImageEnd(s, p) ==
    IF ~At(s, p, <<"!", "[">>) THEN 0
    ELSE LET rb == ImageClose(s, p)
         IN  IF rb = 0 \/ ~At(s, rb + 1, <<"(">>) THEN 0
             ELSE LET rp == FirstIn(s, rb + 2, {")"})
                  IN  IF rp >= rb + 3 THEN rp ELSE 0

\* <img src="\2" alt="\1"/>
ImageRepl(s, p) ==
    LET rb == ImageClose(s, p)
    IN  IMG1 \o SubSeq(s, rb + 2, ImageEnd(s, p) - 1)
           \o IMG2 \o SubSeq(s, p + 2, rb - 1) \o IMG3

\* _RE_LINK = \[([^\]]+?)\]\(([^)]+?)\)
LinkClose(s, p) == FirstIn(s, p + 1, {"]"})

LinkEnd(s, p) ==
    IF ~At(s, p, <<"[">>) THEN 0
    ELSE LET rb == LinkClose(s, p)
         IN  IF rb < p + 2 \/ ~At(s, rb + 1, <<"(">>) THEN 0
             ELSE LET rp == FirstIn(s, rb + 2, {")"})
                  IN  IF rp >= rb + 3 THEN rp ELSE 0

\* <a href="\2">\1</a>
LinkRepl(s, p) ==
    LET rb == LinkClose(s, p)
    IN  A1 \o SubSeq(s, rb + 2, LinkEnd(s, p) - 1)
           \o A2 \o SubSeq(s, p + 1, rb - 1) \o A3

\* _RE_CODE = a backquote, ([^backquote]+?), a backquote
CodeEnd(s, p) ==
    IF ~At(s, p, <<BQ>>) THEN 0
    ELSE LET q == FirstIn(s, p + 1, {BQ})
         IN  IF q >= p + 2 THEN q ELSE 0

\* <code>\1</code>
CodeRepl(s, p) == CODE1 \o SubSeq(s, p + 1, CodeEnd(s, p) - 1) \o CODE2

\* _RE_BOLD = (\*\*|__)(.+?)\1 : the index where the closing delimiter starts
BoldClose(s, p) ==
    LET d == SubSeq(s, p, p + 1)
        qs == {q \in (p + 3)..(Len(s) - 1) :
                 At(s, q, d) /\ NoNewline(s, p + 2, q - 1)}
    IN  IF qs = {} THEN 0 ELSE Min(qs)

BoldEnd(s, p) ==
    IF ~(At(s, p, <<"*", "*">>) \/ At(s, p, <<"_", "_">>)) THEN 0
    ELSE IF BoldClose(s, p) = 0 THEN 0 ELSE BoldClose(s, p) + 1

\* <strong>\2</strong>
BoldRepl(s, p) == STRONG1 \o SubSeq(s, p + 2, BoldClose(s, p) - 1) \o STRONG2

\* _RE_ITALIC = (\*|_)(.+?)\1
ItalicEnd(s, p) ==
    IF ~(At(s, p, <<"*">>) \/ At(s, p, <<"_">>)) THEN 0
    ELSE LET qs == {q \in (p + 2)..Len(s) :
                      s[q] = s[p] /\ NoNewline(s, p + 1, q - 1)}
         IN  IF qs = {} THEN 0 ELSE Min(qs)

\* <em>\2</em>
ItalicRepl(s, p) == EM1 \o SubSeq(s, p + 1, ItalicEnd(s, p) - 1) \o EM2

RECURSIVE Hits(_, _)
\* Pattern.sub scans left to right: the starts of the matches it replaces
\* from pos on, ends[p] being the end of the match that starts at p (0: none)
Hits(ends, pos) ==
    LET ms == {p \in pos..Len(ends) : ends[p] # 0}
    IN  IF ms = {} THEN <<>>
        ELSE <<Min(ms)>> \o Hits(ends, ends[Min(ms)] + 1)

RECURSIVE Splice(_, _, _, _, _)
\* the text from pos on with the matches starting at hits[n..] replaced
Splice(s, ends, repls, hits, n) ==
    LET pos == IF n = 1 THEN 1 ELSE ends[hits[n - 1]] + 1
    IN  IF n > Len(hits) THEN Tail_(s, pos)
        ELSE SubSeq(s, pos, hits[n] - 1) \o repls[hits[n]]
                \o Splice(s, ends, repls, hits, n + 1)

\* Pattern.sub(template, s), given the match end and replacement per start
re_sub(s, ends, repls) == Splice(s, ends, repls, Hits(ends, 1), 1)

ImageEnds(s) == [p \in 1..Len(s) |-> ImageEnd(s, p)]

ImageRepls(s) ==
    [p \in 1..Len(s) |-> IF ImageEnd(s, p) = 0 THEN <<>> ELSE ImageRepl(s, p)]

\* _RE_IMAGE.sub(...)  (inline_parser.py line 30)
sub_image(s) == re_sub(s, ImageEnds(s), ImageRepls(s))

LinkEnds(s) == [p \in 1..Len(s) |-> LinkEnd(s, p)]

LinkRepls(s) ==
    [p \in 1..Len(s) |-> IF LinkEnd(s, p) = 0 THEN <<>> ELSE LinkRepl(s, p)]

\* _RE_LINK.sub(...)  (line 32)
sub_link(s) == re_sub(s, LinkEnds(s), LinkRepls(s))

CodeEnds(s) == [p \in 1..Len(s) |-> CodeEnd(s, p)]

CodeRepls(s) ==
    [p \in 1..Len(s) |-> IF CodeEnd(s, p) = 0 THEN <<>> ELSE CodeRepl(s, p)]

\* _RE_CODE.sub(...)  (line 34)
sub_code(s) == re_sub(s, CodeEnds(s), CodeRepls(s))

BoldEnds(s) == [p \in 1..Len(s) |-> BoldEnd(s, p)]

BoldRepls(s) ==
    [p \in 1..Len(s) |-> IF BoldEnd(s, p) = 0 THEN <<>> ELSE BoldRepl(s, p)]

\* _RE_BOLD.sub(...)  (line 36)
sub_bold(s) == re_sub(s, BoldEnds(s), BoldRepls(s))

ItalicEnds(s) == [p \in 1..Len(s) |-> ItalicEnd(s, p)]

ItalicRepls(s) ==
    [p \in 1..Len(s) |->
        IF ItalicEnd(s, p) = 0 THEN <<>> ELSE ItalicRepl(s, p)]

\* _RE_ITALIC.sub(...)  (line 38)
sub_italic(s) == re_sub(s, ItalicEnds(s), ItalicRepls(s))

\* the text after each of the five rules, in the order the code applies them
after_image(text) == sub_image(text)

after_link(text) == sub_link(after_image(text))

after_code(text) == sub_code(after_link(text))

after_bold(text) == sub_bold(after_code(text))

replace_inline(text) == sub_italic(after_bold(text))

-----------------------------------------------------------------------------
(* renderer.py                                                             *)

\* html.escape with quote=False: the two quote characters are kept
EscapeChar_NoQuote(c) ==
    CASE c = "&"  -> AMP
      [] c = "<"  -> LT
      [] c = ">"  -> GT
      [] OTHER    -> <<c>>

\* html.escape(c) of one character (quote=True)
EscapeChar(c) ==
    CASE c = "&"  -> AMP
      [] c = "<"  -> LT
      [] c = ">"  -> GT
      [] c = "\"" -> QUOT
      [] c = "'"  -> APOS
      [] OTHER    -> <<c>>

\* _escape(text) = html.escape(text)
escape(text) == Concat([k \in 1..Len(text) |-> EscapeChar(text[k])])

\* str(level) for the one-digit levels a heading has
LevelStr(level) ==
    <<(<<"0", "1", "2", "3", "4", "5", "6", "7", "8", "9">>)[level + 1]>>

RECURSIVE Repeat(_, _)
\* text * n
Repeat(text, n) == IF n <= 0 THEN <<>> ELSE text \o Repeat(text, n - 1)

\* the item without a list of its own around it
ul_fragment_Bare(item) ==
    <<"<", "l", "i", ">">> \o item \o <<"<", "/", "l", "i", ">">>

\* f"<ul><li>{item}</li></ul>" (line 77)
ul_fragment(item) == UL1 \o item \o UL2

\* the fragment render appends for one block (nothing for an unknown type)
Fragment(block) ==
    CASE block.type = "heading" ->
           <<"<", "h">> \o LevelStr(block.level) \o <<">">> \o block.content
              \o <<"<", "/", "h">> \o LevelStr(block.level) \o <<">">>
      [] block.type = "paragraph" -> P1 \o block.content \o P2
      [] block.type = "hr" -> HR
      [] block.type = "code_block" ->
           IF block.language # <<>>
           THEN PRE_LANG1 \o block.language \o PRE_LANG2
                   \o escape(block.content) \o PRE2
           ELSE PRE1 \o escape(block.content) \o PRE2
      [] block.type = "blockquote" ->
           Repeat(BQUOTE1, block.level) \o block.content
              \o Repeat(BQUOTE2, block.level)
      [] block.type = "ul" -> ul_fragment(block.content)
      [] block.type = "ol" -> OL1 \o block.content \o OL2
      [] OTHER -> <<>>

-----------------------------------------------------------------------------
(* parser.py: parse, one action per branch of the outer loop and per       *)
(* iteration of an inner loop.  pc is the position in convert:             *)
(*   "start"  convert entered            "parse"  head of the outer loop   *)
(*   "fence"  head of the fence loop     "bq"     head of the quote loop   *)
(*   "para"   head of the paragraph loop "inline" loop of process_inline   *)
(*   "render" loop of render             "done"   convert returned         *)
(*   "raised" an exception left convert                                    *)
(* calls, src, first and parsed are history variables: the stages convert *)
(* has called, the first and last line index each block was built from,   *)
(* the index of the line that opened the block being gathered, and the    *)
(* blocks as parse returned them.                                          *)

DigitChars == <<"0", "1", "2", "3", "4", "5", "6", "7", "8", "9">>

DigitVal(c) == (CHOOSE n \in 1..10 : DigitChars[n] = c) - 1

RECURSIVE DecValue(_)
\* the value of a decimal digit string
DecValue(ds) ==
    IF ds = <<>> THEN 0
    ELSE 10 * DecValue(SubSeq(ds, 1, Len(ds) - 1)) + DigitVal(ds[Len(ds)])

\* int(m.group(2)): CPython refuses a digit string longer than
\* sys.int_info.default_max_str_digits = 4300 with ValueError
IntRaises(ds) == Len(ds) > 4300

\* the branch of the outer loop that takes the line: the if/continue chain
Classify(line) ==
    IF RE_HR(line) THEN "hr"
    ELSE IF RE_HEADING(line) THEN "heading"
    ELSE IF RE_FENCE_START(line) THEN "code_block"
    ELSE IF RE_BLOCKQUOTE(line) THEN "blockquote"
    ELSE IF RE_UNORDERED(line) THEN "ul"
    ELSE IF RE_ORDERED(line) THEN "ol"
    ELSE IF IsBlank(line) THEN "blank"
    ELSE "paragraph"

\* the stop test of the paragraph loop (lines 148-150)
StartsBlock(nxt) ==
    \/ RE_HR(nxt) \/ RE_HEADING(nxt) \/ RE_FENCE_START(nxt)
    \/ RE_BLOCKQUOTE(nxt) \/ RE_UNORDERED(nxt) \/ RE_ORDERED(nxt)

AtLine(kind) ==
    /\ pc = "parse"
    /\ i <= Len(tokens)
    /\ Classify(tokens[i]) = kind

Emit(block, from, to) ==
    /\ blocks' = Append(blocks, block)
    /\ src' = Append(src, <<from, to>>)

ParseHR ==
    /\ AtLine("hr")
    /\ Emit([type |-> "hr"], i, i)
    /\ i' = i + 1
    /\ UNCHANGED <<markdown, pc, tokens, language, code_lines, para_lines,
                   j, html_parts, result, calls, first, parsed>>

ParseHeading ==
    /\ AtLine("heading")
    /\ Emit([type |-> "heading", level |-> HeadingHashes(tokens[i]),
             content |-> strip(HeadingText(tokens[i]))], i, i)
    /\ i' = i + 1
    /\ UNCHANGED <<markdown, pc, tokens, language, code_lines, para_lines,
                   j, html_parts, result, calls, first, parsed>>

FenceOpen ==
    /\ AtLine("code_block")
    /\ language' = FenceLanguage(tokens[i])
    /\ i' = i + 1
    /\ code_lines' = <<>>
    /\ first' = i
    /\ pc' = "fence"
    /\ UNCHANGED <<markdown, tokens, blocks, para_lines, j, html_parts,
                   result, calls, src, parsed>>

\* FenceBody collecting the stripped line instead of the raw line
FenceBody_Stripped ==
    /\ pc = "fence"
    /\ i <= Len(tokens) /\ ~RE_FENCE_END(tokens[i])
    /\ code_lines' = Append(code_lines, strip(tokens[i]))
    /\ i' = i + 1
    /\ UNCHANGED <<markdown, pc, tokens, blocks, language, para_lines, j,
                   html_parts, result, calls, src, first, parsed>>

FenceBody ==
    /\ pc = "fence"
    /\ i <= Len(tokens) /\ ~RE_FENCE_END(tokens[i])
    /\ code_lines' = Append(code_lines, tokens[i])
    /\ i' = i + 1
    /\ UNCHANGED <<markdown, pc, tokens, blocks, language, para_lines, j,
                   html_parts, result, calls, src, first, parsed>>

FenceClose ==
    /\ pc = "fence"
    /\ ~(i <= Len(tokens) /\ ~RE_FENCE_END(tokens[i]))
    /\ i' = i + 1
    /\ Emit([type |-> "code_block", language |-> language,
             content |-> JoinWith(<<"\n">>, code_lines)], first, i)
    /\ pc' = "parse"
    /\ UNCHANGED <<markdown, tokens, language, code_lines, para_lines, j,
                   html_parts, result, calls, first, parsed>>

\* level and content of one blockquote line (lines 91-96)
QuoteLevel(line) ==
    LET level == Len(line) - Len(lstrip_gt(line))
    IN  IF level = 0 THEN 1 ELSE level

QuoteContent(line) == strip(lstrip_gt(line))

\* one pass of the while-True loop: entered from the outer loop on a
\* matching line, repeated while the next line matches
Blockquote ==
    /\ (AtLine("blockquote") \/ pc = "bq")
    /\ Emit([type |-> "blockquote", level |-> QuoteLevel(tokens[i]),
             content |-> QuoteContent(tokens[i])], i, i)
    /\ i' = i + 1
    /\ pc' = IF i + 1 <= Len(tokens) /\ RE_BLOCKQUOTE(tokens[i + 1])
             THEN "bq" ELSE "parse"
    /\ UNCHANGED <<markdown, tokens, language, code_lines, para_lines, j,
                   html_parts, result, calls, first, parsed>>

ParseUL ==
    /\ AtLine("ul")
    /\ Emit([type |-> "ul",
             indent |-> RunLen(tokens[i], 1, Spaces),
             content |-> strip(UnorderedText(tokens[i]))], i, i)
    /\ i' = i + 1
    /\ UNCHANGED <<markdown, pc, tokens, language, code_lines, para_lines,
                   j, html_parts, result, calls, first, parsed>>

ParseOL ==
    /\ AtLine("ol")
    /\ ~IntRaises(OrderedDigits(tokens[i]))
    /\ Emit([type |-> "ol",
             indent |-> RunLen(tokens[i], 1, Spaces),
             number |-> DecValue(OrderedDigits(tokens[i])),
             content |-> strip(OrderedText(tokens[i]))], i, i)
    /\ i' = i + 1
    /\ UNCHANGED <<markdown, pc, tokens, language, code_lines, para_lines,
                   j, html_parts, result, calls, first, parsed>>

\* int() raises ValueError, which nothing in parse or convert catches
ParseOLRaise ==
    /\ AtLine("ol")
    /\ IntRaises(OrderedDigits(tokens[i]))
    /\ pc' = "raised"
    /\ UNCHANGED <<markdown, tokens, i, blocks, language, code_lines,
                   para_lines, j, html_parts, result, calls, src, first, parsed>>

ParseBlank ==
    /\ AtLine("blank")
    /\ i' = i + 1
    /\ UNCHANGED <<markdown, pc, tokens, blocks, language, code_lines,
                   para_lines, j, html_parts, result, calls, src, first, parsed>>

ParaStart ==
    /\ AtLine("paragraph")
    /\ para_lines' = <<strip(tokens[i])>>
    /\ first' = i
    /\ i' = i + 1
    /\ pc' = "para"
    /\ UNCHANGED <<markdown, tokens, blocks, language, code_lines, j,
                   html_parts, result, calls, src, parsed>>

\* the paragraph loop without the test of lines 148-151
ParaGoesOn_NoBlockTest ==
    /\ i <= Len(tokens)
    /\ ~IsBlank(tokens[i])

\* the paragraph loop goes on: the line is neither blank nor a block start
ParaGoesOn ==
    /\ i <= Len(tokens)
    /\ ~IsBlank(tokens[i])
    /\ ~StartsBlock(tokens[i])

ParaAppend ==
    /\ pc = "para"
    /\ ParaGoesOn
    /\ para_lines' = Append(para_lines, strip(tokens[i]))
    /\ i' = i + 1
    /\ UNCHANGED <<markdown, pc, tokens, blocks, language, code_lines, j,
                   html_parts, result, calls, src, first, parsed>>

ParaEnd ==
    /\ pc = "para"
    /\ ~ParaGoesOn
    /\ Emit([type |-> "paragraph",
             content |-> JoinWith(<<" ">>, para_lines)], first, i - 1)
    /\ pc' = "parse"
    /\ UNCHANGED <<markdown, tokens, i, language, code_lines, para_lines,
                   j, html_parts, result, calls, first, parsed>>

\* the outer loop ends; convert calls process_inline
ParseReturn ==
    /\ pc = "parse"
    /\ ~(i <= Len(tokens))
    /\ pc' = "inline"
    /\ j' = 1
    /\ calls' = calls \cup {"process_inline"}
    /\ parsed' = blocks
    /\ UNCHANGED <<markdown, tokens, i, blocks, language, code_lines,
                   para_lines, html_parts, result, src, first>>

-----------------------------------------------------------------------------
(* inline_parser.py: process_inline, and renderer.py: render               *)

\* one pass of the loop over blocks (lines 57-59)
ProcessInline ==
    /\ pc = "inline"
    /\ j <= Len(blocks)
    /\ blocks' = IF "content" \in DOMAIN blocks[j]
                 THEN [blocks EXCEPT ![j].content = replace_inline(@)]
                 ELSE blocks
    /\ j' = j + 1
    /\ UNCHANGED <<markdown, pc, tokens, i, language, code_lines,
                   para_lines, html_parts, result, calls, src, first, parsed>>

\* process_inline returns; convert calls render
InlineReturn ==
    /\ pc = "inline"
    /\ j > Len(blocks)
    /\ pc' = "render"
    /\ j' = 1
    /\ html_parts' = <<>>
    /\ calls' = calls \cup {"render"}
    /\ UNCHANGED <<markdown, tokens, i, blocks, language, code_lines,
                   para_lines, result, src, first, parsed>>

\* one pass of the loop over blocks (lines 43-84)
Render ==
    /\ pc = "render"
    /\ j <= Len(blocks)
    /\ html_parts' = Append(html_parts, Fragment(blocks[j]))
    /\ j' = j + 1
    /\ UNCHANGED <<markdown, pc, tokens, i, blocks, language, code_lines,
                   para_lines, result, calls, src, first, parsed>>

\* return "".join(html_parts)
RenderReturn ==
    /\ pc = "render"
    /\ j > Len(blocks)
    /\ result' = Concat(html_parts)
    /\ pc' = "done"
    /\ UNCHANGED <<markdown, tokens, i, blocks, language, code_lines,
                   para_lines, j, html_parts, calls, src, first, parsed>>

-----------------------------------------------------------------------------
(* converter.py: convert                                                   *)

\* the test of line 31 without its strip(): only the empty text is empty
IsEmptyInput_NoStrip(md) == md = <<>>

\* not markdown or markdown.strip() == ""  (line 31)
IsEmptyInput(md) == md = <<>> \/ strip(md) = <<>>

\* the early return of line 32
ConvertEmpty ==
    /\ pc = "start"
    /\ IsEmptyInput(markdown)
    /\ result' = <<>>
    /\ pc' = "done"
    /\ UNCHANGED <<markdown, tokens, i, blocks, language, code_lines,
                   para_lines, j, html_parts, calls, src, first, parsed>>

\* tokens = tokenize(markdown), then parse starts: blocks = [], i = 0
Tokenize ==
    /\ pc = "start"
    /\ ~IsEmptyInput(markdown)
    /\ tokens' = tokenize(markdown)
    /\ blocks' = <<>>
    /\ i' = 1
    /\ calls' = calls \cup {"tokenize", "parse"}
    /\ pc' = "parse"
    /\ UNCHANGED <<markdown, language, code_lines, para_lines, j,
                   html_parts, result, src, first, parsed>>

Next ==
    \/ ConvertEmpty \/ Tokenize
    \/ ParseHR \/ ParseHeading
    \/ FenceOpen \/ FenceBody \/ FenceClose
    \/ Blockquote
    \/ ParseUL \/ ParseOL \/ ParseOLRaise
    \/ ParseBlank
    \/ ParaStart \/ ParaAppend \/ ParaEnd
    \/ ParseReturn
    \/ ProcessInline \/ InlineReturn
    \/ Render \/ RenderReturn

\* the state when convert(md) is entered
Entered(md) ==
    /\ markdown = md
    /\ pc = "start"
    /\ tokens = <<>>
    /\ i = 1
    /\ blocks = <<>>
    /\ language = <<>>
    /\ code_lines = <<>>
    /\ para_lines = <<>>
    /\ j = 1
    /\ html_parts = <<>>
    /\ result = <<>>
    /\ calls = {}
    /\ src = <<>>
    /\ first = 0
    /\ parsed = <<>>

-----------------------------------------------------------------------------
(* The inputs convert is entered with.  Every family is a bounded set of   *)
(* texts; Scenarios are the inputs of test_converter.py and a few more     *)
(* that reach every branch.                                                *)

\* lines per document of the block family
MaxLines == 3

\* characters of the heading text of the heading family
MaxText == 3

\* items of the unordered-list family
MaxItems == 4

\* characters of the whitespace family
MaxBlank == 3

\* pieces of the inline family
MaxPieces == 4

\* lines of the block family: one or more per branch of the outer loop
CoreLines ==
    { <<>>,
      <<"a">>,
      <<" ", "b", " ">>,
      <<"-", "-", "-">>,
      <<"#", " ", "a">>,
      <<BQ, BQ, BQ>>,
      <<BQ, BQ, BQ, "p", "y">>,
      <<">", " ", "a">>,
      <<" ", ">", ">", " ", "a">>,
      <<">", ">", "b">>,
      <<"-", " ", "a">>,
      <<" ", " ", "*", " ", "b", " ">>,
      <<"1", ".", " ", "a">>,
      <<"*", "*", "c", "*", "*">> }

\* documents of at most MaxLines core lines, joined by newlines
BlockDocs ==
    {JoinWith(<<"\n">>, ls) :
        ls \in UNION {[1..n -> CoreLines] : n \in 1..MaxLines}}

\* fenced blocks: an opening fence, up to MaxLines - 1 core lines, and a
\* closing fence or none
FencedDocs ==
    {JoinWith(<<"\n">>, <<open>> \o ls \o close) :
        open \in {Fence, Fence \o <<"p", "y">>},
        ls \in UNION {[1..n -> CoreLines] : n \in 1..(MaxLines - 1)},
        close \in {<<>>, <<Fence>>, <<Fence \o <<" ">>, <<"a">> >>}}

TextAlphabet == {"a", " ", "#", "*", "<", "-"}

\* the texts of at most n characters over alphabet A
TextsUpTo(A, n) == UNION {[1..k -> A] : k \in 0..n}

\* one to seven '#', a space, a text
HeadingDocs ==
    {Repeat(<<"#">>, n) \o <<" ">> \o t :
        n \in 1..7, t \in TextsUpTo(TextAlphabet, MaxText)}

\* lines of the unordered-list family
ItemLines ==
    { <<"-", " ", "a">>,
      <<" ", " ", "*", " ", "b", " ", "c", " ">>,
      <<"+", "\t", "a">>,
      <<" ", " ", " ", " ", "-", " ">>,
      <<"-", " ", " ", "<", "b", ">">> }

ItemDocs ==
    {JoinWith(<<"\n">>, ls) :
        ls \in UNION {[1..n -> ItemLines] : n \in 1..MaxItems}}

\* the empty text and the texts of whitespace only
BlankDocs == TextsUpTo({" ", "\t", "\n", "\r"}, MaxBlank)

\* pieces an inline text is put together from
InlinePieces ==
    { <<"a">>,
      <<"*">>,
      <<"_">>,
      <<BQ>>,
      <<"[", "a", "]", "(">>,
      <<"!">>,
      <<")">>,
      <<"<", "&", ">", "\"", "'">> }

InlineTexts ==
    {Concat(ps) : ps \in UNION {[1..n -> InlinePieces] : n \in 1..MaxPieces}}

\* each inline text as a paragraph line and as the body of a fenced block
InlineDocs ==
    InlineTexts
    \cup {Fence \o <<"\n">> \o t \o <<"\n">> \o Fence : t \in InlineTexts}

\* an ordered-list line whose digit run is one digit past CPython's limit
LongNumberDoc == [k \in 1..4301 |-> "1"] \o <<".", " ", "x">>

\* the inputs of the test suite, and inputs for the remaining branches
Scenarios ==
    { <<"#", " ", "H", "e", "l", "l", "o">>,
      <<"F", "i", "r", "s", "t", " ", "p", "a", "r", "a", "g", "r", "a",
        "p", "h", ".", "\n", "\n", "S", "e", "c", "o", "n", "d", " ", "p",
        "a", "r", "a", "g", "r", "a", "p", "h", ".">>,
      <<"*", "T", "h", "i", "s", " ", "i", "s", " ", "*", "*", "b", "o",
        "l", "d", "*", "*", " ", "i", "n", "s", "i", "d", "e", " ", "i",
        "t", "a", "l", "i", "c", "*">>,
      <<"-", " ", "T", "o", "p", "\n", " ", " ", "-", " ", "N", "e", "s",
        "t", "e", "d", "\n", " ", " ", " ", " ", "-", " ", "D", "e", "e",
        "p">>,
      <<BQ, BQ, BQ, "\n", "#", " ", "N", "o", "t", " ", "a", " ", "h", "e",
        "a", "d", "i", "n", "g", "\n", "*", "*", "n", "o", "t", " ", "b",
        "o", "l", "d", "*", "*", "\n", BQ, BQ, BQ>>,
      <<BQ, BQ, BQ, "p", "y", "t", "h", "o", "n", "\n", "p", "r", "i", "n",
        "t", "(", "'", "h", "e", "l", "l", "o", "'", ")", "\n", BQ, BQ, BQ>>,
      <<">", " ", "L", "e", "v", "e", "l", " ", "1", "\n", ">", ">", " ",
        "L", "e", "v", "e", "l", " ", "2">>,
      <<"1", ".", " ", "F", "i", "r", "s", "t", "\n", "2", ".", " ", "S",
        "e", "c", "o", "n", "d", "\n", "3", ".", " ", "T", "h", "i", "r",
        "d">>,
      <<"#", " ", "O", "n", "e", "\n", "#", "#", " ", "T", "w", "o", "\n",
        "#", "#", "#", " ", "T", "h", "r", "e", "e">>,
      <<"_", "_", "_">>,
      <<"[", "t", "]", "(", "u", "_", "v", "_", "w", ")">>,
      <<"[", "C", "l", "i", "c", "k", " ", "h", "e", "r", "e", "]", "(",
        "h", "t", "t", "p", "s", ":", "/", "/", "e", "x", "a", "m", "p",
        "l", "e", ".", "c", "o", "m", ")">>,
      <<"!", "[", "A", "l", "t", " ", "t", "e", "x", "t", "]", "(", "i",
        "m", "a", "g", "e", ".", "p", "n", "g", ")">>,
      <<" ", " ", " ", "\n", "\n", " ", " ", " ">>,
      <<"U", "s", "e", " ", "t", "h", "e", " ", BQ, "p", "r", "i", "n",
        "t", "(", ")", BQ, " ", "f", "u", "n", "c", "t", "i", "o", "n">>,
      <<"a", "\r", "\n", "b", "\r", "c", "\n">>,
      <<BQ, BQ, BQ, "\n", "a", "\n">>,
      <<"x", "\n", "y", "\n", "\n", ">", " ", "q", "\n", BQ, BQ, BQ, "j",
        "s", " ", " ", "\n", "<", "i", ">", "\n", BQ, BQ, BQ, " ", "\n",
        "1", "2", ".", " ", "z">> }

Init == \E md \in BlockDocs \cup FencedDocs \cup HeadingDocs \cup ItemDocs
                    \cup BlankDocs \cup Scenarios \cup {LongNumberDoc} :
            Entered(md)

Spec == Init /\ [][Next]_vars

InitInline == \E md \in InlineDocs \cup Scenarios \cup {LongNumberDoc} :
                 Entered(md)

SpecInline == InitInline /\ [][Next]_vars

-----------------------------------------------------------------------------
(* Properties.  ParseBlocks is the block list as parse built it: blocks    *)
(* while parse runs (and after an exception), parsed once it has returned. *)

ParseBlocks ==
    IF pc \in {"inline", "render", "done"} /\ calls # {} THEN parsed ELSE blocks

\* the line indexes block k was built from
Span(k) == src[k][1]..src[k][2]

\* line o is not a later line of a block that began on an earlier line
OuterLine(o) == ~\E k \in 1..Len(src) : src[k][1] < o /\ o <= src[k][2]

\* the closing fences after line o
Closers(o) == {c \in (o + 1)..Len(tokens) : RE_FENCE_END(tokens[c])}

\* the lines before this index are in the blocks built so far, or skipped
Settled == IF pc \in {"fence", "para"} THEN first ELSE i

\* the pipeline ran to its end
Converted == pc = "done" /\ calls # {}

\* C1: when the cursor has passed an opening fence line that a closing fence
\* follows, the lines strictly between the opening fence and the first
\* closing fence are, verbatim, in order and joined by newlines, the content
\* of exactly one code block, and no other block is built from those lines.
C1_FenceBodyVerbatim ==
    \A o \in 1..Len(tokens) :
        ( /\ o < Settled
          /\ OuterLine(o)
          /\ RE_FENCE_START(tokens[o])
          /\ Closers(o) # {} )
        => LET c == Min(Closers(o))
               own == {k \in 1..Len(ParseBlocks) : src[k] = <<o, c>>}
           IN  /\ Cardinality(own) = 1
               /\ \A k \in own :
                     /\ ParseBlocks[k].type = "code_block"
                     /\ ParseBlocks[k].content =
                           JoinWith(<<"\n">>, SubSeq(tokens, o + 1, c - 1))
               /\ \A k \in 1..Len(ParseBlocks) :
                     k \notin own => Span(k) \cap (o..c) = {}

\* a closed fence holding two or more lines, one of which reads as a heading,
\* a list item or a blockquote
C1_Witness ==
    /\ Converted
    /\ \E k \in 1..Len(parsed) :
          /\ parsed[k].type = "code_block"
          /\ src[k][2] <= Len(tokens)
          /\ src[k][2] - src[k][1] >= 3
          /\ \E n \in (src[k][1] + 1)..(src[k][2] - 1) :
                StartsBlock(tokens[n])
          /\ Contains(parsed[k].content, <<"\n">>)

\* the length of the run of '>' that follows the leading whitespace
QuoteRun(line) == RunLen(line, RunLen(line, 1, Spaces) + 1, {">"})

\* what follows that run, stripped
QuoteRest(line) ==
    strip(Tail_(line, RunLen(line, 1, Spaces) + QuoteRun(line) + 1))

\* C2: every blockquote block has the level of its line's run of '>', counted
\* after any leading whitespace, and is rendered as that many opening tags,
\* the content after the run, and as many closing tags.
C2_QuoteLevelIsRun ==
    \A k \in 1..Len(ParseBlocks) :
        ParseBlocks[k].type = "blockquote"
        => LET line == tokens[src[k][1]]
           IN  /\ src[k][1] = src[k][2]
               /\ ParseBlocks[k].level = QuoteRun(line)
               /\ k <= Len(html_parts) =>
                     html_parts[k] =
                        Repeat(BQUOTE1, QuoteRun(line))
                           \o replace_inline(QuoteRest(line))
                           \o Repeat(BQUOTE2, QuoteRun(line))

\* the replacements a substitution makes in s
Produced(ends, repls) ==
    {repls[Hits(ends, 1)[n]] : n \in 1..Len(Hits(ends, 1))}

\* the replacements the four earlier rules make on the way from text
EarlierReplacements(text) ==
    Produced(ImageEnds(text), ImageRepls(text))
    \cup Produced(LinkEnds(after_image(text)), LinkRepls(after_image(text)))
    \cup Produced(CodeEnds(after_link(text)), CodeRepls(after_link(text)))
    \cup Produced(BoldEnds(after_code(text)), BoldRepls(after_code(text)))

\* C3: every replacement made by the image, link, code or bold rule is left
\* as it is by the rules after it: it occurs unchanged in the final content.
C3_EarlierReplacementsKept ==
    Converted =>
        \A k \in 1..Len(parsed) :
            "content" \in DOMAIN parsed[k] =>
                \A r \in EarlierReplacements(parsed[k].content) :
                    Contains(blocks[k].content, r)

\* the five characters html.escape replaces do not occur in text, but for
\* the '&' that starts one of its five entities
NoRawMarkup(text) ==
    \A p \in 1..Len(text) :
        /\ text[p] \notin {"<", ">", "\"", "'"}
        /\ text[p] = "&" =>
              \E e \in {AMP, LT, GT, QUOT, APOS} : At(text, p, e)

\* the opening of the fragment of a code block with this language
CodeOpening(lang) ==
    IF lang = <<>> THEN PRE1 ELSE PRE_LANG1 \o lang \o PRE_LANG2

InlineMarks == {"*", "_", BQ, "[", "]", "(", ")", "!"}

NoInlineMarkup(text) == \A p \in 1..Len(text) : text[p] \notin InlineMarks

\* the fragment of one unordered item line
ItemFragment(line) == UL1 \o strip(UnorderedText(line)) \o UL2

\* C5: an input of K >= 1 lines that all match the unordered-item pattern,
\* with item texts free of inline markup, is converted to the K fragments
\* <ul><li>item</li></ul> in source order: K opening and K closing ul tags.
C5_OneListPerItem ==
    ( /\ Converted
      /\ Len(tokens) >= 1
      /\ \A n \in 1..Len(tokens) :
            /\ RE_UNORDERED(tokens[n])
            /\ NoInlineMarkup(UnorderedText(tokens[n])) )
    => /\ Len(html_parts) = Len(tokens)
       /\ \A n \in 1..Len(tokens) : html_parts[n] = ItemFragment(tokens[n])
       /\ result = Concat([n \in 1..Len(tokens) |-> ItemFragment(tokens[n])])
       /\ Count(result, <<"<", "u", "l", ">">>) = Len(tokens)
       /\ Count(result, <<"<", "/", "u", "l", ">">>) = Len(tokens)

\* three or more item lines, one of them indented, converted
C5_Witness ==
    /\ Converted
    /\ Len(tokens) >= 3
    /\ \A n \in 1..Len(tokens) :
          RE_UNORDERED(tokens[n]) /\ NoInlineMarkup(UnorderedText(tokens[n]))
    /\ \E n \in 1..Len(tokens) : IsSpace(tokens[n][1])
    /\ \E n \in 1..Len(tokens) : tokens[n][1] \in {"*", "+"}

\* a heading text as C6 restricts it: one line, not empty, no whitespace at
\* either end, no leading '#', no inline markup
PlainHeadingText(text) ==
    /\ text # <<>>
    /\ strip(text) = text
    /\ text[1] # "#"
    /\ NoInlineMarkup(text)
    /\ \A p \in 1..Len(text) : ~IsLineBreak(text[p])

\* C6: for N in 1..6, N '#', one space and such a text convert to exactly
\* <hN>text</hN>.
C6_HeadingLevelIsRun ==
    pc = "done" =>
        \A n \in 1..6 :
            LET text == Tail_(markdown, n + 2)
            IN  ( /\ At(markdown, 1, Repeat(<<"#">>, n) \o <<" ">>)
                  /\ PlainHeadingText(text) )
                => result = <<"<", "h", DigitChars[n + 1], ">">> \o text
                               \o <<"<", "/", "h", DigitChars[n + 1], ">">>

\* a level-six heading with a text of several characters, converted
C6_Witness ==
    /\ Converted
    /\ At(markdown, 1, Repeat(<<"#">>, 6) \o <<" ">>)
    /\ PlainHeadingText(Tail_(markdown, 8))
    /\ Len(markdown) >= 10
    /\ At(result, 1, <<"<", "h", "6", ">">>)

\* the input is empty or holds whitespace only
OnlyWhitespace(md) == \A p \in 1..Len(md) : md[p] \in {" ", "\t", "\n", "\r"}

\* C7: for an empty or whitespace-only input convert returns the empty text
\* and calls none of tokenize, parse, process_inline and render.
C7_BlankInputBypasses ==
    OnlyWhitespace(markdown)
    => /\ calls = {}
       /\ pc \in {"start", "done"}
       /\ pc = "done" => result = <<>>

\* convert has returned for an input of blanks and line breaks
C7_Witness ==
    /\ pc = "done"
    /\ Len(markdown) >= 3
    /\ OnlyWhitespace(markdown)
    /\ \E p \in 1..Len(markdown) : markdown[p] = "\n"
    /\ \E p \in 1..Len(markdown) : markdown[p] = " "
    /\ result = <<>>

\* C8: convert is total: no input makes an exception leave it.
C8_NeverRaises == pc # "raised"

\* lines f..l, each stripped, joined by single spaces
StrippedJoin(f, l) ==
    JoinWith(<<" ">>, [n \in 1..(l - f + 1) |-> strip(tokens[f + n - 1])])

\* line n can only be paragraph text: not blank, none of rules 1-6
ParagraphLine(n) == ~IsBlank(tokens[n]) /\ ~StartsBlock(tokens[n])

\* line n lies inside a fenced block
Fenced(n) ==
    \/ \E k \in 1..Len(src) :
          ParseBlocks[k].type = "code_block" /\ n \in Span(k)
    \/ pc = "fence" /\ n >= first

\* C9: a paragraph block is built from a maximal run of non-blank lines that
\* match none of rules 1-6, stripped and joined by single spaces; the line
\* that stops the run is not part of it and, unless blank, begins the next
\* block; and every such line outside a fence is in exactly one paragraph.
C9_ParagraphAggregation ==
    /\ \A k \in 1..Len(ParseBlocks) :
          ParseBlocks[k].type = "paragraph"
          => LET f == src[k][1]
                 l == src[k][2]
             IN  /\ f <= l
                 /\ \A n \in f..l : ParagraphLine(n)
                 /\ ParseBlocks[k].content = StrippedJoin(f, l)
                 /\ l < Len(tokens) => ~ParagraphLine(l + 1)
                 /\ (f > 1 /\ ~Fenced(f - 1)) => ~ParagraphLine(f - 1)
                 /\ (k < Len(ParseBlocks) /\ ~IsBlank(tokens[l + 1]))
                       => /\ src[k + 1][1] = l + 1
                          /\ ParseBlocks[k + 1].type # "paragraph"
    /\ \A n \in 1..Len(tokens) :
          (n < Settled /\ ParagraphLine(n) /\ ~Fenced(n))
          => Cardinality({k \in 1..Len(ParseBlocks) :
                            /\ ParseBlocks[k].type = "paragraph"
                            /\ n \in Span(k)}) = 1

\* a paragraph of two or more lines, one with blanks to strip, that a line
\* of rules 1-6 stops, and the block of that line
C9_Witness ==
    /\ Converted
    /\ \E k \in 1..(Len(parsed) - 1) :
          /\ parsed[k].type = "paragraph"
          /\ src[k][2] > src[k][1]
          /\ \E n \in Span(k) : strip(tokens[n]) # tokens[n]
          /\ StartsBlock(tokens[src[k][2] + 1])
          /\ src[k + 1][1] = src[k][2] + 1

\* the blocks were built from disjoint runs of lines, in source order
SourceOrder(spans) ==
    /\ \A k \in 1..Len(spans) : spans[k][1] <= spans[k][2]
    /\ \A k \in 1..(Len(spans) - 1) : spans[k][2] < spans[k + 1][1]

\* C10: the cursor never decreases; every pass of the outer loop and of an
\* inner loop increases it; the blocks are built from disjoint runs of lines
\* in source order; and parse ends, for every line sequence, with the cursor
\* past the last line.
C10_CursorAndTermination ==
    [][ /\ i' >= i
        /\ (pc \in {"parse", "fence", "bq", "para"}
              /\ ~(pc = "para" /\ pc' = "parse")
              /\ ~(pc = "parse" /\ pc' = "inline"))
           => i' > i
        /\ SourceOrder(src')
        /\ pc' \in {"inline", "render", "done", "raised"}
           => i' > Len(tokens') ]_vars

=============================================================================
